---- MODULE Spec2Model ----
(***************************************************************************)
(* The notebook tutorial/01_RNN_generator_solution.ipynb as a state        *)
(* machine.  The kernel runs one cell at a time; a cell that loops over    *)
(* sess.run is split into one action per sess.run, with pc telling which   *)
(* cell is running.  Floating point values are abstracted to integers      *)
(* modulo Q; the library network (GRU cells, dense layer, Adam) is an      *)
(* arbitrary but deterministic function of its inputs, state and weights,  *)
(* and random draws are choices from small sets.                           *)
(***************************************************************************)
EXTENDS Integers, Sequences, FiniteSets, TLC

(* ---- bounds of the model ---- *)
Q == 3                  \* values are integers modulo Q
MaxLayers == 2          \* NLAYERS ranges over 1..MaxLayers
MaxTrainRuns == 2       \* executions of the training cell per initialization
\* sizes of the notebook, scaled down
RNN_CELLSIZE == 1       \* 64 in the notebook
SEQLEN == 3             \* 16 in the notebook
BATCHSIZE == 2          \* 32 in the notebook
NB_EPOCHS == 2          \* 10 in the notebook
PRIMELEN == 2           \* 256 in the notebook
RUNLEN == 3             \* 512 in the notebook
RMSELEN == 2            \* 128 in the notebook
OFFSET == 1             \* 20 in the notebook

(* ---- program constants ---- *)
WAVEFORM_SELECT == 0
DROPOUT_PKEEP == 7      \* keep probabilities in tenths: 0.7
NO_DROPOUT == 10        \* 1.0
LOSS_EVERY == 10        \* if i%10 == 0
\* 1024*128 in the notebook, 256 times BATCHSIZE * SEQLEN: a whole number of
\* batches, of which the sequencer can use all but one
DATA_SEQ_LEN == 3 * BATCHSIZE * SEQLEN

VARIABLES
    NLAYERS,      \* hyperparameter: number of stacked cells
    data,         \* the time series, indexed from 0
    dcells,       \* the cell stack of the instantiated model
    sess,         \* "none" before the session cell has run, then "open"
    rng,          \* state of the session's random generator (dropout masks)
    weights,      \* trainable variables: [w: value, t: Adam step count]
    Hzero,        \* first input state of training
    H_,           \* state carried through the training loop
    losses, indices,
    pc,           \* "idle", "train", "prime", "loop"
    gen,          \* batches of the running training loop
    i,            \* loop index of the running cell
    trainRuns,    \* executions of the training cell since initialization
    prime_data,   \* argument of prediction_run: data[OFFSET:OFFSET+PRIMELEN]
    run_length,   \* argument of prediction_run
    pH_, pYout_,  \* locals H_ and Yout_ of prediction_run
    pidx,         \* time index the value pYout_ stands for
    presults,     \* local results of prediction_run: [val, idx] records
    results,      \* global results
    results_for,  \* time index each element of results is a forecast of
    rmse,         \* the error over the shaded area, as the sum of the squares
    rmse_idx,     \* ground truth index each element of results is compared to
    Yout_, loss_, \* last output and loss fetched by the training loop
    calls         \* sess.run calls of the cell that is running

vars == << NLAYERS, data, dcells, sess, rng, weights, Hzero, H_, losses, indices,
           pc, gen, i, trainRuns, prime_data, run_length, pH_, pYout_, pidx,
           presults, results, results_for, rmse, rmse_idx, Yout_, loss_,
           calls >>

(* ---- helpers ---- *)
RECURSIVE Sum(_)
Sum(s) == IF s = << >> THEN 0 ELSE Head(s) + Sum(Tail(s))

\* The array f as a tuple.  The value is the same; TLC computes the elements
\* once, here, and not again at every use.
Vec(f) == << >> \o f

\* np.zeros([rows, cols])
zeros(rows, cols) == Vec([r \in 1..rows |-> Vec([c \in 1..cols |-> 0])])

(* ---- create_time_series ---- *)
frequencies == << <<4, 3>>, <<7, 6>>, <<12, 11>> >>

\* np.random.random(): the k-th draw of the generator seeded with seed
noise(seed, k) == (seed * (k + 1)) % 2

create_time_series(datalen, seed) ==
    LET freq1 == frequencies[WAVEFORM_SELECT + 1][1]
        freq2 == frequencies[WAVEFORM_SELECT + 1][2]
        x1(k) == ((k * freq1) % Q) + noise(seed, k)
        x2(k) == ((k * freq2) % Q) + noise(seed, k)
    IN  [k \in 0..(datalen - 1) |-> (x1(k) + x2(k)) % Q]

(* ---- utils_batching.rnn_minibatch_sequencer ---- *)
\* Batches of sequences such that the sequences of one batch continue in
\* the next one.  xi and yi are the data indices of the elements of x and y.
rnn_minibatch_sequencer(d, batch_size, sequence_size, nb_epochs) ==
    LET data_len == Cardinality(DOMAIN d)
        nb_batches == (data_len - 1) \div (batch_size * sequence_size)
        \* reshape(data[0:rounded_data_len], [batch_size, nb_batches * sequence_size])
        xdata(r, c) == r * (nb_batches * sequence_size) + c
        \* the same of data[1:rounded_data_len + 1]
        ydata(r, c) == 1 + r * (nb_batches * sequence_size) + c
        \* np.roll(x, -epoch, axis=0): row r holds the former row r + epoch
        xi(epoch, batch) ==
            Vec([r \in 1..batch_size |-> Vec([t \in 1..sequence_size |->
                xdata((r - 1 + epoch) % batch_size, batch * sequence_size + t - 1)])])
        yi(epoch, batch) ==
            Vec([r \in 1..batch_size |-> Vec([t \in 1..sequence_size |->
                ydata((r - 1 + epoch) % batch_size, batch * sequence_size + t - 1)])])
        values(m) == Vec([r \in DOMAIN m |-> Vec([t \in DOMAIN m[r] |-> d[m[r][t]]])])
    IN  [n \in 1..(nb_epochs * nb_batches) |->
            LET epoch == (n - 1) \div nb_batches
                batch == (n - 1) % nb_batches
            IN  [x |-> values(xi(epoch, batch)), y |-> values(yi(epoch, batch)),
                 epoch |-> epoch, xi |-> xi(epoch, batch), yi |-> yi(epoch, batch)]]

\* the call with batch size and sequence length exchanged
TrainSequencerSwapped(d) == rnn_minibatch_sequencer(d, SEQLEN, BATCHSIZE, NB_EPOCHS)

\* the sequencer as the training loop calls it
TrainSequencer(d) == rnn_minibatch_sequencer(d, BATCHSIZE, SEQLEN, NB_EPOCHS)

\* np.expand_dims(m, axis=2)
expand_dims(m) == Vec([r \in DOMAIN m |-> Vec([t \in DOMAIN m[r] |-> << m[r][t] >>])])

\* the distance in the series between a sample and the label the network
\* is trained to output for it
LabelShift(d) == LET b == TrainSequencer(d)[1] IN b.yi[1][1] - b.xi[1][1]

(* ---- model_rnn_fn ---- *)
\* a stack with every cell wrapped, the last one too
BuildCellsAllWrapped(nlayers) ==
    [l \in 1..nlayers |-> [cell |-> l, dropout |-> TRUE]]

\* cells, then dcells: the stack handed to MultiRNNCell
BuildCells(nlayers) ==
    LET cells == [l \in 1..nlayers |-> [cell |-> l, dropout |-> FALSE]]
        wrapped == [l \in 1..(Len(cells) - 1) |-> [cells[l] EXCEPT !.dropout = TRUE]]
    IN  wrapped \o << cells[Len(cells)] >>

\* the part of a concatenated state that belongs to layer l
StateOf(state, l) ==
    Vec([j \in 1..RNN_CELLSIZE |-> state[(l - 1) * RNN_CELLSIZE + j]])

\* one GRU cell: new state (which is also its output) from input and state
GRUCell(x, h, w) ==
    Vec([j \in 1..RNN_CELLSIZE |-> (2 * h[j] + Sum(x) + w + j) % Q])

\* DropoutWrapper: some outputs are zeroed unless the keep probability is 1.0
Dropped(dseed, k) == (dseed + k) % 2 = 0
DropoutWrapper(y, keep, dseed, salt) ==
    IF keep = NO_DROPOUT THEN y
    ELSE Vec([j \in DOMAIN y |-> IF Dropped(dseed, salt + j) THEN 0 ELSE y[j]])

\* MultiRNNCell, state_is_tuple=False: layers l.. of the stack on input x
RECURSIVE MultiRNNCell(_, _, _, _, _, _, _, _)
MultiRNNCell(stack, l, x, state, w, keep, dseed, salt) ==
    IF l > Len(stack) THEN [out |-> x, state |-> << >>]
    ELSE LET h == GRUCell(x, StateOf(state, l), w + l)
             y == IF stack[l].dropout THEN DropoutWrapper(h, keep, dseed, salt + l)
                  ELSE h
             rest == MultiRNNCell(stack, l + 1, y, state, w, keep, dseed, salt)
         IN  [out |-> rest.out, state |-> h \o rest.state]

\* tf.nn.dynamic_rnn on one row of the batch, from position t on
RECURSIVE dynamic_rnn(_, _, _, _, _, _, _, _)
dynamic_rnn(stack, t, X, state, w, keep, dseed, salt) ==
    IF t > Len(X) THEN [Yn |-> << >>, H |-> state]
    ELSE LET s == MultiRNNCell(stack, 1, X[t], state, w, keep, dseed, salt + t)
             rest == dynamic_rnn(stack, t + 1, X, s.state, w, keep, dseed, salt)
         IN  [Yn |-> << s.out >> \o rest.Yn, H |-> rest.H]

\* tf.layers.dense(Yn, 1)
dense(y, w) == (Sum(y) + w) % Q

\* tf.losses.mean_squared_error
mean_squared_error(Yr, lab) ==
    LET sq(r, t) == (Yr[r][t][1] - lab[r][t][1]) * (Yr[r][t][1] - lab[r][t][1])
        row(r) == Sum([t \in DOMAIN Yr[r] |-> sq(r, t)])
    IN  Sum([r \in DOMAIN Yr |-> row(r)]) \div (Len(Yr) * Len(Yr[1]))

\* the graph: Yout, H and loss for a batch of features
model_rnn_fn(stack, features, Hin, lab, keep, w, dseed) ==
    LET u == Vec([r \in DOMAIN features |->
                 dynamic_rnn(stack, 1, features[r], Hin[r], w, keep, dseed, r)])
        Yr == Vec([r \in DOMAIN features |->
                 Vec([t \in DOMAIN features[r] |-> << dense(u[r].Yn[t], w) >>])])
    IN  [Yout |-> Vec([r \in DOMAIN features |-> Yr[r][Len(Yr[r])]]),
         H |-> Vec([r \in DOMAIN features |-> u[r].H]),
         Yr |-> Yr]

\* optimizer.minimize(loss): one Adam step
AdamStep(wts, loss) == [w |-> (wts.w + loss + 1) % Q, t |-> wts.t + 1]

\* sess.run(fetches, feed_dict=feed) on weights wts
SessRun(stack, fetches, feed, wts, dseed) ==
    LET m == model_rnn_fn(stack, feed.samples, feed.Hin, feed.labels,
                          feed.dropout_pkeep, wts.w, dseed)
        loss == IF {"loss", "train_op"} \cap fetches # {}
                THEN mean_squared_error(m.Yr, feed.labels) ELSE 0
    IN  [Yout |-> m.Yout, H |-> m.H, loss |-> loss,
         weights |-> IF "train_op" \in fetches THEN AdamStep(wts, loss) ELSE wts]

(* ---- feeds and fetches of the three sess.run call sites ---- *)
\* a guard that skips the priming of a single sample
PrimeGuardMoreThanOne(data_len) == data_len > 1

\* prediction_run, "if data_len > 0"
PrimeGuard(data_len) == data_len > 0

\* a priming feed that leaves dropout on
PrimeFeedDropout(H, prime) ==
    [Hin |-> H, samples |-> << Vec([t \in 1..Len(prime) |-> << prime[t] >>]) >>,
     labels |-> << >>, dropout_pkeep |-> DROPOUT_PKEEP]

\* prediction_run, priming: np.reshape(Yin, [1, data_len, 1]) and the feed
PrimeFeed(H, prime) ==
    [Hin |-> H, samples |-> << Vec([t \in 1..Len(prime) |-> << prime[t] >>]) >>,
     labels |-> << >>, dropout_pkeep |-> NO_DROPOUT]

\* a loop feed that starts every iteration from the zero state
PredictFeedZeroState(H, Y) ==
    [Hin |-> zeros(Len(H), Len(H[1])), samples |-> << << << Y[1][1] >> >> >>,
     labels |-> << >>, dropout_pkeep |-> NO_DROPOUT]

\* prediction_run, loop: np.reshape(Yout_, [1, 1, 1]) and the feed
PredictFeed(H, Y) ==
    [Hin |-> H, samples |-> << << << Y[1][1] >> >> >>,
     labels |-> << >>, dropout_pkeep |-> NO_DROPOUT]

\* prediction_run: sess.run([Yout, H], ...)
PredictFetches == {"Yout", "H"}

\* a training feed that starts every batch from the zero state
TrainFeedZeroState(H, next_samples, next_labels) ==
    [Hin |-> zeros(Len(H), Len(H[1])), samples |-> next_samples,
     labels |-> next_labels, dropout_pkeep |-> DROPOUT_PKEEP]

\* training loop: the feed
TrainFeed(H, next_samples, next_labels) ==
    [Hin |-> H, samples |-> next_samples, labels |-> next_labels,
     dropout_pkeep |-> DROPOUT_PKEEP]

\* fetches without the training operation
TrainFetchesNoTrainOp == {"Yout", "H", "loss"}

\* training loop: sess.run([Yout, H, loss, train_op], ...)
TrainFetches == {"Yout", "H", "loss", "train_op"}

\* data[a:b], a slice of a 0-based array as a sequence
Slice(d, a, b) ==
    LET n == Cardinality(DOMAIN d)
        lo == IF a > n THEN n ELSE a
        hi == IF b > n THEN n ELSE b
    IN  Vec([k \in 1..(hi - lo) |-> d[lo + k - 1]])

\* seeds of the random generators
Seeds == {0, 1}

\* the generator of the dropout masks after one more sess.run
NextRng(stack, r) == IF \E l \in DOMAIN stack : stack[l].dropout THEN 1 - r ELSE r

\* lengths of prime data and run lengths given to prediction_run
PrimeLengths == {0, 1, PRIMELEN}
RunLengths == {RMSELEN, RUNLEN}

(* ---- the state after the cells that define things have run ---- *)
Init ==
    /\ NLAYERS \in 1..MaxLayers
    /\ \E seed \in Seeds : data = create_time_series(DATA_SEQ_LEN, seed)
    /\ dcells = BuildCells(NLAYERS)
    /\ sess = "none"
    /\ rng = 0
    /\ weights = [w |-> 0, t |-> 0]
    /\ Hzero = << >>
    /\ H_ = << >>
    /\ losses = << >>
    /\ indices = << >>
    /\ pc = "idle"
    /\ gen = << >>
    /\ i = 0
    /\ trainRuns = 0
    /\ prime_data = << >>
    /\ run_length = 0
    /\ pH_ = << >>
    /\ pYout_ = << >>
    /\ pidx = 0
    /\ presults = << >>
    /\ results = << >>
    /\ results_for = << >>
    /\ rmse = 0
    /\ rmse_idx = << >>
    /\ Yout_ = << >>
    /\ loss_ = 0
    /\ calls = << >>

(* ---- cell "Initialize Tensorflow session" ---- *)
InitSession ==
    /\ pc = "idle"
    /\ Hzero' = zeros(BATCHSIZE, RNN_CELLSIZE * NLAYERS)
    /\ sess' = "open"
    \* initial values and dropout masks come from the session's generator
    /\ \E seed \in Seeds :
        /\ weights' = [w |-> seed, t |-> 0]
        /\ rng' = seed
    /\ trainRuns' = 0
    /\ UNCHANGED << NLAYERS, data, dcells, H_, losses, indices, pc, gen, i,
                    prime_data, run_length, pH_, pYout_, pidx, presults,
                    results, results_for, rmse, rmse_idx, Yout_, loss_, calls >>

(* ---- cell "The training loop" ---- *)
TrainCellBegin ==
    /\ pc = "idle"
    /\ sess = "open"
    /\ trainRuns < MaxTrainRuns
    /\ H_' = Hzero
    /\ losses' = << >>
    /\ indices' = << >>
    /\ gen' = TrainSequencer(data)
    /\ i' = 0
    /\ pc' = "train"
    /\ calls' = << >>
    /\ UNCHANGED << NLAYERS, data, dcells, sess, rng, weights, Hzero, trainRuns,
                    prime_data, run_length, pH_, pYout_, pidx, presults,
                    results, results_for, rmse, rmse_idx, Yout_, loss_ >>

TrainStep ==
    /\ pc = "train"
    /\ i < Len(gen)
    /\ LET batch == gen[i + 1]
           next_samples == expand_dims(batch.x)
           next_labels == expand_dims(batch.y)
           feed == TrainFeed(H_, next_samples, next_labels)
           r == SessRun(dcells, TrainFetches, feed, weights, rng)
       IN   /\ Yout_' = r.Yout
            /\ H_' = r.H
            /\ loss_' = r.loss
            /\ weights' = r.weights
            /\ rng' = NextRng(dcells, rng)
            /\ losses' = IF i % LOSS_EVERY = 0 THEN Append(losses, r.loss) ELSE losses
            /\ indices' = IF i % LOSS_EVERY = 0 THEN Append(indices, i) ELSE indices
            /\ calls' = Append(calls, [site |-> "train", feed |-> feed,
                                       fetches |-> TrainFetches, Yout |-> r.Yout,
                                       H |-> r.H, epoch |-> batch.epoch])
    /\ i' = i + 1
    /\ UNCHANGED << NLAYERS, data, dcells, sess, Hzero, pc, gen, trainRuns,
                    prime_data, run_length, pH_, pYout_, pidx, presults,
                    results, results_for, rmse, rmse_idx >>

TrainCellEnd ==
    /\ pc = "train"
    /\ i = Len(gen)
    /\ pc' = "idle"
    /\ trainRuns' = trainRuns + 1
    /\ gen' = << >>
    /\ calls' = << >>
    /\ UNCHANGED << NLAYERS, data, dcells, sess, rng, weights, Hzero, H_, losses,
                    indices, i, prime_data, run_length, pH_, pYout_, pidx,
                    presults, results, results_for, rmse, rmse_idx, Yout_, loss_ >>

(* ---- cell with PRIMELEN, RUNLEN, OFFSET: prediction_run and the RMSE ---- *)
PredictCellBegin ==
    /\ pc = "idle"
    /\ sess = "open"
    /\ \E primelen \in PrimeLengths, runlen \in RunLengths :
        /\ prime_data' = Slice(data, OFFSET, OFFSET + primelen)
        /\ run_length' = runlen
        /\ pidx' = OFFSET + primelen - 1
        /\ pc' = IF PrimeGuard(primelen) THEN "prime" ELSE "loop"
    /\ pH_' = zeros(1, RNN_CELLSIZE * NLAYERS)
    /\ pYout_' = zeros(1, 1)
    /\ presults' = << >>
    /\ i' = 0
    /\ calls' = << >>
    /\ UNCHANGED << NLAYERS, data, dcells, sess, rng, weights, Hzero, H_, losses,
                    indices, gen, trainRuns, results, results_for, rmse,
                    rmse_idx, Yout_, loss_ >>

Prime ==
    /\ pc = "prime"
    /\ LET feed == PrimeFeed(pH_, prime_data)
            r == SessRun(dcells, PredictFetches, feed, weights, rng)
        IN  /\ pYout_' = r.Yout
            /\ pH_' = r.H
            /\ weights' = r.weights
            /\ rng' = NextRng(dcells, rng)
            /\ calls' = Append(calls, [site |-> "prime", feed |-> feed,
                                       fetches |-> PredictFetches, Yout |-> r.Yout,
                                       H |-> r.H, epoch |-> 0])
    /\ pidx' = pidx + LabelShift(data)
    /\ pc' = "loop"
    /\ UNCHANGED << NLAYERS, data, dcells, sess, Hzero, H_, losses, indices,
                    gen, i, trainRuns, prime_data, run_length, presults,
                    results, results_for, rmse, rmse_idx, Yout_, loss_ >>

PredictStep ==
    /\ pc = "loop"
    /\ i < run_length
    /\ LET feed == PredictFeed(pH_, pYout_)
            r == SessRun(dcells, PredictFetches, feed, weights, rng)
        IN  /\ pYout_' = r.Yout
            /\ pH_' = r.H
            /\ weights' = r.weights
            /\ rng' = NextRng(dcells, rng)
            /\ presults' = Append(presults, [val |-> r.Yout[1][1],
                                             idx |-> pidx + LabelShift(data)])
            /\ calls' = Append(calls, [site |-> "loop", feed |-> feed,
                                       fetches |-> PredictFetches, Yout |-> r.Yout,
                                       H |-> r.H, epoch |-> 0])
    /\ pidx' = pidx + LabelShift(data)
    /\ i' = i + 1
    /\ UNCHANGED << NLAYERS, data, dcells, sess, Hzero, H_, losses, indices,
                    pc, gen, trainRuns, prime_data, run_length, results,
                    results_for, rmse, rmse_idx, Yout_, loss_ >>

\* the squared differences of truth[k] - res[k], summed, with numpy's
\* broadcasting of a single element; "error" when the shapes do not match
SquaredError(truth, res) ==
    IF Len(res) = Len(truth)
    THEN Sum([k \in 1..Len(truth) |-> (truth[k] - res[k]) * (truth[k] - res[k])])
    ELSE IF Len(res) = 1
    THEN Sum([k \in 1..Len(truth) |-> (truth[k] - res[1]) * (truth[k] - res[1])])
    ELSE IF Len(truth) = 1
    THEN Sum([k \in 1..Len(res) |-> (truth[1] - res[k]) * (truth[1] - res[k])])
    ELSE -1

PredictCellEnd ==
    /\ pc = "loop"
    /\ i = run_length
    /\ LET res == [k \in 1..Len(presults) |-> presults[k].val]
           primelen == Len(prime_data)
           truth == Slice(data, OFFSET + primelen, OFFSET + primelen + RMSELEN)
           r == SubSeq(res, 1, IF Len(res) < RMSELEN THEN Len(res) ELSE RMSELEN)
           se == SquaredError(truth, r)
       IN  /\ results' = res
           /\ results_for' = [k \in 1..Len(presults) |-> presults[k].idx]
           /\ rmse' = IF se < 0 THEN rmse ELSE se
           /\ rmse_idx' = IF se < 0 THEN rmse_idx
                          ELSE [k \in 1..Len(truth) |-> OFFSET + primelen + k - 1]
    /\ pc' = "idle"
    /\ calls' = << >>
    /\ UNCHANGED << NLAYERS, data, dcells, sess, rng, weights, Hzero, H_, losses,
                    indices, gen, i, trainRuns, prime_data, run_length, pH_,
                    pYout_, pidx, presults, Yout_, loss_ >>

Next ==
    \/ InitSession
    \/ TrainCellBegin
    \/ TrainStep
    \/ TrainCellEnd
    \/ PredictCellBegin
    \/ Prime
    \/ PredictStep
    \/ PredictCellEnd

Spec == Init /\ [][Next]_vars

(* ---- properties ---- *)
PredictSites == {"prime", "loop"}
Predicting == pc \in PredictSites
ZeroState(rows) == zeros(rows, RNN_CELLSIZE * NLAYERS)
StepsPerRun == Len(TrainSequencer(data))

\* C1: every iteration of the prediction loop that follows a sess.run is fed,
\* as input and as input state, the output and the output state of the
\* sess.run immediately before it (the priming run for the first iteration,
\* the previous iteration afterwards), and nothing from the data.
C1_FeedbackLoop ==
    Predicting =>
        \A n \in 2..Len(calls) :
            /\ calls[n].site = "loop"
            /\ calls[n].feed.Hin = calls[n - 1].H
            /\ calls[n].feed.samples = << << calls[n - 1].Yout[1] >> >>

C1_Witness ==
    /\ pc = "loop"
    /\ Len(calls) >= 3
    /\ calls[1].site = "prime"
    /\ calls[3].site = "loop"
    /\ calls[2].H # calls[1].H
    /\ calls[2].Yout # calls[1].Yout
    /\ calls[3].feed.Hin # ZeroState(1)

\* C2: each of the first RMSELEN elements of results is the forecast of the
\* sample it is subtracted from in the RMSE, when the prediction was primed
\* with data.
C2_ForecastAligned ==
    (pc = "idle" /\ prime_data # << >> /\ Len(results) >= RMSELEN) =>
        /\ Len(rmse_idx) = RMSELEN
        /\ \A k \in 1..RMSELEN : results_for[k] = rmse_idx[k]

\* C3: the weights are reset by the session cell only; the training cell
\* goes on from the weights it finds, one training step per batch, and
\* starts from Hzero with empty losses and indices.
C3_Counts ==
    /\ sess = "open" =>
           weights.t = trainRuns * StepsPerRun + (IF pc = "train" THEN i ELSE 0)
    /\ (pc = "train" /\ i = 0) =>
           H_ = Hzero /\ losses = << >> /\ indices = << >>

C3_Step ==
    /\ (weights' # weights /\ weights'.t <= weights.t) => InitSession
    /\ (weights'.t > weights.t) => (pc = "train" /\ weights'.t = weights.t + 1)
    /\ (pc = "idle" /\ pc' = "train") => weights' = weights

\* C3: the counts hold in every state and every step is one of the above
C3_ContinuesTraining == [] C3_Counts /\ [][C3_Step]_vars

C3_Witness ==
    /\ pc = "idle"
    /\ trainRuns = 2
    /\ weights.t = 2 * StepsPerRun
    /\ StepsPerRun >= 2
    /\ H_ # Hzero

C5_Feeds ==
    \A n \in 1..Len(calls) :
        /\ calls[n].site \in PredictSites =>
              /\ calls[n].feed.dropout_pkeep = NO_DROPOUT
              /\ calls[n].fetches = {"Yout", "H"}
        /\ calls[n].feed.dropout_pkeep = DROPOUT_PKEEP =>
              /\ calls[n].site = "train"
              /\ "train_op" \in calls[n].fetches

C5_Frame ==
    (Predicting \/ Predicting') =>
        /\ weights' = weights
        /\ H_' = H_
        /\ losses' = losses
        /\ indices' = indices

\* C5: the feeds are as stated in every state and no step of prediction_run
\* changes the weights or the training loop's variables
C5_PureInference == [] C5_Feeds /\ [][C5_Frame]_vars

C5_Witness ==
    /\ pc = "loop"
    /\ i = run_length
    /\ Len(calls) = 1 + RUNLEN
    /\ calls[1].site = "prime"
    /\ weights.t > 0
    /\ H_ # << >>
    /\ H_ # Hzero
    /\ losses # << >>

\* C6: prediction_run with prime data makes one priming sess.run, before any
\* iteration of the loop, fed the zero state and all of the prime data as one
\* sequence; without prime data it makes none, and the first iteration is
\* fed the zero state and the input 0.
C6_Priming ==
    Predicting =>
        IF prime_data # << >>
        THEN /\ pc = "prime" => calls = << >>
             /\ pc = "loop" =>
                 /\ calls # << >>
                 /\ calls[1].site = "prime"
                 /\ calls[1].feed.Hin = ZeroState(1)
                 /\ calls[1].feed.samples =
                        << [t \in 1..Len(prime_data) |-> << prime_data[t] >>] >>
                 /\ \A n \in 2..Len(calls) : calls[n].site # "prime"
        ELSE /\ pc = "loop"
             /\ \A n \in 1..Len(calls) : calls[n].site # "prime"
             /\ calls # << >> =>
                 /\ calls[1].feed.Hin = ZeroState(1)
                 /\ calls[1].feed.samples = << << << 0 >> >> >>

C6_Witness ==
    /\ pc = "loop"
    /\ Len(prime_data) = PRIMELEN
    /\ Len(prime_data) >= 2
    /\ prime_data[1] # prime_data[2]
    /\ Len(calls) >= 2
    /\ calls[1].H # ZeroState(1)

\* C7: in one execution of the training loop the first training step is fed
\* Hzero, all zeros of shape [BATCHSIZE, RNN_CELLSIZE*NLAYERS], and every
\* later one the state the step before it returned, also when the epoch
\* changes.
C7_StateThreaded ==
    pc = "train" =>
        /\ Hzero = ZeroState(BATCHSIZE)
        /\ \A n \in 1..Len(calls) :
            calls[n].feed.Hin = IF n = 1 THEN Hzero ELSE calls[n - 1].H

C7_Witness ==
    /\ pc = "train"
    /\ Len(calls) = Len(gen)
    /\ \E n \in 2..Len(calls) :
        /\ calls[n].epoch # calls[n - 1].epoch
        /\ calls[n].feed.Hin # Hzero
    /\ \E n \in 2..Len(calls) :
        /\ calls[n].epoch = calls[n - 1].epoch
        /\ calls[n].feed.Hin # Hzero

====
